---- MODULE Spec2Model ----
(***************************************************************************)
(* Model of the winch motor component of ptrwinchmotor (winchmotor.go).    *)
(*                                                                         *)
(* The component holds one mutable field, wm.board, a handle to a board    *)
(* supplied by the host runtime.  Reconfigure swaps the handle, SetPower   *)
(* drives the propeller pin through it, every other capability is a stub.  *)
(*                                                                         *)
(* Spec      : the host calls one operation at a time (each action is a    *)
(*             whole handler).                                             *)
(* SpecConc  : one Reconfigure and one SetPower call context interleave    *)
(*             at the granularity of their reads and writes of wm.board.   *)
(*                                                                         *)
(* float64 inputs are modelled in thousandths (One = 1.0).                 *)
(***************************************************************************)
EXTENDS Integers, Sequences, FiniteSets, TLC

\* ------------------------------------------------------------------ bounds
\* Number of board handles the host runtime can supply.  Boards
\* 1 .. NumBoards-1 expose every header pin; board NumBoards is a board
\* that exposes none of them (GPIOPinByName fails on it).
NumBoards == 3

\* ------------------------------------------------------- program constants
propellerPinName == "29"
turningPinNames == <<"40", "38", "36", "32">>
wenchPinNames == <<"31", "33", "35", "37">>

\* powerPct == 1 : the literal 1.0, in thousandths
One == 1000

\* the nil interface value of board.Board
Nil == 0
\* a resource of the dependency set that is not a board.Board
NotABoard == -1
\* a two-word interface value read while a concurrent store is in flight
Torn == -2

\* the logger argument SetPower hands to setPin, and the component's own
NilLogger == "nil"
WmLogger == "wm.logger"

errUnimplemented == "unimplemented"

\* ------------------------------------------------------------- environment
Boards == 1 .. NumBoards

Range(s) == {s[i] : i \in DOMAIN s}

HeaderPins == {propellerPinName} \cup Range(turningPinNames) \cup Range(wenchPinNames)

\* the pins board b exposes by name
PinsOf(b) == IF b < NumBoards THEN HeaderPins ELSE {}

\* float64 inputs, in thousandths: 1, -1, 0, 0.5, 0.999, -0.5
Powers == {1000, -1000, 0, 500, 999, -500}

\* inputs of the stubbed capabilities
StubInputs == {-1000, 0, 1000}

\* names a dependency set can hold, and names a Config can ask for
DepNames == {"b1", "b2"}
CfgNames == {"b1", "b2", "missing", ""}

\* resource.Dependencies: a map from resource name to resource
DepSets == UNION {[S -> Boards \cup {NotABoard}] : S \in SUBSET DepNames}

\* resource.Config: its converted attributes are a *Config or something else
Confs == {[native |-> TRUE, Board |-> n] : n \in CfgNames}
            \cup {[native |-> FALSE, Board |-> ""]}

\* the values of type *Config
Configs == {c \in Confs : c.native}

NoDeps == [n \in {} |-> Nil]
NoConf == [native |-> FALSE, Board |-> ""]

\* ------------------------------------------------------------------- state
VARIABLES
    board,  \* wm.board: Nil or the bound handle
    pins,   \* the logic level of every pin of every board (TRUE = high)
    last,   \* the last completed call: inputs, state before it, what it did
    rc,     \* the Reconfigure call context (SpecConc)
    sp      \* the SetPower call context (SpecConc)

vars == <<board, pins, last, rc, sp>>

NoCall == [op |-> "new", args |-> <<>>, writeFails |-> FALSE,
           deps |-> NoDeps, conf |-> NoConf,
           pre |-> Nil, prePins |-> [b \in Boards |-> [p \in PinsOf(b) |-> FALSE]],
           result |-> "nil", ops |-> <<>>, logged |-> <<>>, ret |-> <<>>,
           afterBind |-> FALSE]

IdleRc == [pc |-> "idle", deps |-> NoDeps, conf |-> NoConf, pre |-> Nil,
           err |-> "nil"]
IdleSp == [pc |-> "idle", powerPct |-> 0, b |-> Nil, pin |-> FALSE,
           racing |-> FALSE, old |-> Nil, new |-> Nil, ops |-> <<>>,
           err |-> "nil", logged |-> <<>>, bound |-> Nil, rcBusy |-> FALSE]

\* newWinchMotor: the component is constructed without a board
newWinchMotor ==
    /\ board = Nil
    /\ pins = [b \in Boards |-> [p \in PinsOf(b) |-> FALSE]]
    /\ last = NoCall
    /\ rc = IdleRc
    /\ sp = IdleSp

Init == newWinchMotor

Sequential == rc.pc = "idle" /\ sp.pc = "idle"

\* a call returns.  The record of the completed call: its inputs, the handle
\* and the pin levels it started from, its result, the pin operations it
\* performed, what it sent to the diagnostic sink, and whether the call
\* before it was a successful Reconfigure.
Return(op, args, wf, deps, conf, result, ops, logged, ret) ==
    last' = [op |-> op, args |-> args, writeFails |-> wf, deps |-> deps,
             conf |-> conf, pre |-> board, prePins |-> pins,
             result |-> result, ops |-> ops, logged |-> logged, ret |-> ret,
             afterBind |-> (last.op = "Reconfigure" /\ last.result = "nil")]

\* ------------------------------------------------------------------ setPin
PinOp(op, b, name, high) == [op |-> op, board |-> b, pin |-> name, high |-> high]

\* l.Error(err); return err -- a method call on a nil logger panics
LogAndReturn(l, err, ops, pinState) ==
    IF l = NilLogger
    THEN [err |-> "panic", ops |-> ops, logged |-> <<>>, pins |-> pinState]
    ELSE [err |-> err, ops |-> ops, logged |-> <<err>>, pins |-> pinState]

\* a plausible slip of setPin: a failed write is tried once more before
\* the error is logged and returned
setPinRetry(b, l, pv, pinState, writeFails) ==
    IF b \notin Boards
    THEN [err |-> "panic", ops |-> <<>>, logged |-> <<>>, pins |-> pinState]
    ELSE LET lookup == PinOp("GPIOPinByName", b, pv.name, FALSE)
             set == PinOp("Set", b, pv.name, pv.high)
         IN  IF pv.name \notin PinsOf(b)
             THEN LogAndReturn(l, "errPinNotFound", <<lookup>>, pinState)
             ELSE IF writeFails
                  THEN LogAndReturn(l, "errPinSet", <<lookup, set, set>>, pinState)
                  ELSE [err |-> "nil", ops |-> <<lookup, set>>, logged |-> <<>>,
                        pins |-> [pinState EXCEPT ![b][pv.name] = pv.high]]

\* setPin(b, l, pv): look the pin up on b, then set it.  A method call on a
\* nil (or torn) board panics before any pin is touched.
setPin(b, l, pv, pinState, writeFails) ==
    IF b \notin Boards
    THEN [err |-> "panic", ops |-> <<>>, logged |-> <<>>, pins |-> pinState]
    ELSE LET lookup == PinOp("GPIOPinByName", b, pv.name, FALSE)
             set == PinOp("Set", b, pv.name, pv.high)
         IN  IF pv.name \notin PinsOf(b)
             THEN LogAndReturn(l, "errPinNotFound", <<lookup>>, pinState)
             ELSE IF writeFails
                  THEN LogAndReturn(l, "errPinSet", <<lookup, set>>, pinState)
                  ELSE [err |-> "nil", ops |-> <<lookup, set>>, logged |-> <<>>,
                        pins |-> [pinState EXCEPT ![b][pv.name] = pv.high]]

\* ---------------------------------------------------------------- SetPower
\* plausible slips of SetPower: any positive power drives the pin high ...
SetPowerPositive(powerPct, writeFails) ==
    /\ Sequential
    /\ LET r == setPin(board, NilLogger,
                       [name |-> propellerPinName, high |-> powerPct > 0],
                       pins, writeFails)
       IN  /\ pins' = r.pins
           /\ Return("SetPower", <<powerPct>>, writeFails, NoDeps, NoConf,
                     r.err, r.ops, r.logged, <<>>)
    /\ UNCHANGED <<board, rc, sp>>

\* ... a pin failure drops the handle ...
SetPowerUnbinds(powerPct, writeFails) ==
    /\ Sequential
    /\ LET r == setPin(board, NilLogger,
                       [name |-> propellerPinName, high |-> powerPct = One],
                       pins, writeFails)
       IN  /\ pins' = r.pins
           /\ board' = IF r.err = "nil" THEN board ELSE Nil
           /\ Return("SetPower", <<powerPct>>, writeFails, NoDeps, NoConf,
                     r.err, r.ops, r.logged, <<>>)
    /\ UNCHANGED <<rc, sp>>

\* ... and a negative power drives the first turning pin
SetPowerTurning(powerPct, writeFails) ==
    /\ Sequential
    /\ LET r == setPin(board, NilLogger,
                       [name |-> IF powerPct < 0 THEN turningPinNames[1]
                                                 ELSE propellerPinName,
                        high |-> powerPct = One \/ powerPct < 0],
                       pins, writeFails)
       IN  /\ pins' = r.pins
           /\ Return("SetPower", <<powerPct>>, writeFails, NoDeps, NoConf,
                     r.err, r.ops, r.logged, <<>>)
    /\ UNCHANGED <<board, rc, sp>>

\* SetPower: setPin(wm.board, nil, pinValue{propellerPinName, powerPct == 1})
SetPower(powerPct, writeFails) ==
    /\ Sequential
    /\ LET r == setPin(board, NilLogger,
                       [name |-> propellerPinName, high |-> powerPct = One],
                       pins, writeFails)
       IN  /\ pins' = r.pins
           /\ Return("SetPower", <<powerPct>>, writeFails, NoDeps, NoConf,
                     r.err, r.ops, r.logged, <<>>)
    /\ UNCHANGED <<board, rc, sp>>

\* ------------------------------------------------------------- Reconfigure
\* resource.NativeConfig[*Config](conf)
NativeConfig(conf) ==
    IF conf.native THEN [cfg |-> conf, err |-> "nil"]
                   ELSE [cfg |-> NoConf, err |-> "errNativeConfig"]

\* board.FromDependencies(deps, name): the named board, or nil and an error
\* when the name is absent from deps or names a resource that is no board
FromDependencies(deps, name) ==
    IF name \in DOMAIN deps /\ deps[name] \in Boards
    THEN [board |-> deps[name], err |-> "nil"]
    ELSE [board |-> Nil, err |-> "errUnableToGetBoard"]

\* plausible slips of the handle swap: an already bound component is left
\* as it is ...
ReconfigureKeepBound(wmboard, deps, conf) ==
    IF wmboard # Nil
    THEN [board |-> wmboard, err |-> "nil"]
    ELSE LET c == NativeConfig(conf)
             f == FromDependencies(deps, c.cfg.Board)
         IN  IF c.err # "nil" THEN [board |-> Nil, err |-> c.err]
             ELSE [board |-> f.board, err |-> f.err]

\* the resolved handle is dropped instead of stored
ReconfigureNoStore(wmboard, deps, conf) ==
    LET c == NativeConfig(conf)
        f == FromDependencies(deps, c.cfg.Board)
    IN  IF c.err # "nil" THEN [board |-> Nil, err |-> c.err]
        ELSE [board |-> Nil, err |-> f.err]

\* the body of Reconfigure on the handle field: the field and the error
\* after the call, from the field before it (wm.board = nil comes first)
ReconfigureBoard(wmboard, deps, conf) ==
    LET cleared == Nil
        c == NativeConfig(conf)
        f == FromDependencies(deps, c.cfg.Board)
    IN  IF c.err # "nil" THEN [board |-> cleared, err |-> c.err]
        ELSE [board |-> f.board, err |-> f.err]

\* plausible slips of Reconfigure: resolve first and store only on success
\* (a failed call keeps the stale handle) ...
ReconfigureKeepStale(deps, conf) ==
    /\ Sequential
    /\ LET r == ReconfigureBoard(board, deps, conf)
       IN  /\ board' = IF r.err = "nil" THEN r.board ELSE board
           /\ Return("Reconfigure", <<>>, FALSE, deps, conf, r.err, <<>>, <<>>, <<>>)
    /\ UNCHANGED <<pins, rc, sp>>

\* ... and the disabled "stop motors when reconfiguring" tail
ReconfigureStopping(deps, conf) ==
    /\ Sequential
    /\ LET r == ReconfigureBoard(board, deps, conf)
           s == setPin(r.board, WmLogger,
                       [name |-> propellerPinName, high |-> FALSE], pins, FALSE)
       IN  /\ board' = r.board
           /\ pins' = s.pins
           /\ Return("Reconfigure", <<>>, FALSE, deps, conf, r.err, s.ops, <<>>, <<>>)
    /\ UNCHANGED <<rc, sp>>

Reconfigure(deps, conf) ==
    /\ Sequential
    /\ LET r == ReconfigureBoard(board, deps, conf)
       IN  /\ board' = r.board
           /\ Return("Reconfigure", <<>>, FALSE, deps, conf, r.err, <<>>, <<>>, <<>>)
    /\ UNCHANGED <<pins, rc, sp>>

\* ------------------------------------------------------------------- stubs
\* return errUnimplemented
GoFor(rpm, revolutions) ==
    /\ Sequential
    /\ Return("GoFor", <<rpm, revolutions>>, FALSE, NoDeps, NoConf, errUnimplemented,
              <<>>, <<>>, <<>>)
    /\ UNCHANGED <<board, pins, rc, sp>>

\* return errUnimplemented
GoTo(rpm, positionRevolutions) ==
    /\ Sequential
    /\ Return("GoTo", <<rpm, positionRevolutions>>, FALSE, NoDeps, NoConf, errUnimplemented,
              <<>>, <<>>, <<>>)
    /\ UNCHANGED <<board, pins, rc, sp>>

\* return errUnimplemented
SetRPM(rpm) ==
    /\ Sequential
    /\ Return("SetRPM", <<rpm>>, FALSE, NoDeps, NoConf, errUnimplemented,
              <<>>, <<>>, <<>>)
    /\ UNCHANGED <<board, pins, rc, sp>>

\* return errUnimplemented
ResetZeroPosition(offset) ==
    /\ Sequential
    /\ Return("ResetZeroPosition", <<offset>>, FALSE, NoDeps, NoConf, errUnimplemented,
              <<>>, <<>>, <<>>)
    /\ UNCHANGED <<board, pins, rc, sp>>

\* return 0, errUnimplemented
Position ==
    /\ Sequential
    /\ Return("Position", <<>>, FALSE, NoDeps, NoConf, errUnimplemented,
              <<>>, <<>>, <<>>)
    /\ UNCHANGED <<board, pins, rc, sp>>

\* return false, errUnimplemented
IsMoving ==
    /\ Sequential
    /\ Return("IsMoving", <<>>, FALSE, NoDeps, NoConf, errUnimplemented,
              <<>>, <<>>, <<>>)
    /\ UNCHANGED <<board, pins, rc, sp>>

\* return false, 0.0, errUnimplemented
IsPowered ==
    /\ Sequential
    /\ Return("IsPowered", <<>>, FALSE, NoDeps, NoConf, errUnimplemented,
              <<>>, <<>>, <<>>)
    /\ UNCHANGED <<board, pins, rc, sp>>

\* return motor.Properties{}, errUnimplemented
Properties ==
    /\ Sequential
    /\ Return("Properties", <<>>, FALSE, NoDeps, NoConf, errUnimplemented,
              <<>>, <<>>, <<>>)
    /\ UNCHANGED <<board, pins, rc, sp>>

\* return errUnimplemented
Stop ==
    /\ Sequential
    /\ Return("Stop", <<>>, FALSE, NoDeps, NoConf, errUnimplemented,
              <<>>, <<>>, <<>>)
    /\ UNCHANGED <<board, pins, rc, sp>>

\* the disabled body of Close: stop motion, then release the handle
CloseStops ==
    /\ Sequential
    /\ LET s == setPin(board, WmLogger,
                       [name |-> propellerPinName, high |-> FALSE], pins, FALSE)
       IN  /\ pins' = s.pins
           /\ board' = Nil
           /\ Return("Close", <<>>, FALSE, NoDeps, NoConf, "nil", s.ops, <<>>, <<>>)
    /\ UNCHANGED <<rc, sp>>

Close ==
    /\ Sequential
    /\ Return("Close", <<>>, FALSE, NoDeps, NoConf, errUnimplemented,
              <<>>, <<>>, <<>>)
    /\ UNCHANGED <<board, pins, rc, sp>>

\* Config.Validate: the implicit dependencies, always one empty name
Validate(cfg) ==
    /\ Sequential
    /\ Return("Validate", <<>>, FALSE, NoDeps, cfg, "nil", <<>>, <<>>, <<"">>)
    /\ UNCHANGED <<board, pins, rc, sp>>

Next ==
    \/ \E p \in Powers, wf \in BOOLEAN : SetPower(p, wf)
    \/ \E d \in DepSets, c \in Confs : Reconfigure(d, c)
    \/ \E x, y \in StubInputs : GoFor(x, y)
    \/ \E x, y \in StubInputs : GoTo(x, y)
    \/ \E x \in StubInputs : SetRPM(x)
    \/ \E x \in StubInputs : ResetZeroPosition(x)
    \/ Position
    \/ IsMoving
    \/ IsPowered
    \/ Properties
    \/ Stop
    \/ Close
    \/ \E c \in Configs : Validate(c)

Spec == Init /\ [][Next]_vars

\* ------------------------------------------------- concurrent call contexts
\* Reconfigure and SetPower share wm.board without synchronization.  Each
\* step below is one access to the field or one call on the board.  A
\* context that has returned keeps its result until its next call.

\* inputs of the concurrent contexts
ConcDepSets == {d \in DepSets : DOMAIN d = {"b1"}}
ConcConfs == {c \in Confs : c.Board \in {"b1", "missing", ""}}
ConcPowers == {1000, 0}

RcFree == rc.pc \in {"idle", "returned"}
SpFree == sp.pc \in {"idle", "returned"}

\* Reconfigure enters: wm.board = nil
RcClear(deps, conf) ==
    /\ RcFree
    /\ board' = Nil
    /\ rc' = [pc |-> "cleared", deps |-> deps, conf |-> conf, pre |-> board,
              err |-> "nil"]
    /\ UNCHANGED <<pins, last, sp>>

\* resource.NativeConfig; a conversion error returns with the field cleared
RcConvert ==
    /\ rc.pc = "cleared"
    /\ LET c == NativeConfig(rc.conf)
       IN  IF c.err # "nil"
           THEN rc' = [rc EXCEPT !.pc = "returned", !.err = c.err]
           ELSE rc' = [rc EXCEPT !.pc = "converted"]
    /\ UNCHANGED <<board, pins, last, sp>>

\* wm.board, err = board.FromDependencies(deps, baseConfig.Board); return
RcResolve ==
    /\ rc.pc = "converted"
    /\ LET f == FromDependencies(rc.deps, rc.conf.Board)
       IN  /\ board' = f.board
           /\ rc' = [rc EXCEPT !.pc = "returned", !.err = f.err]
    /\ UNCHANGED <<pins, last, sp>>

\* the handle a Reconfigure in flight will store, Nil when it will fail
Pending(r) ==
    IF r.pc \in {"idle", "returned"} THEN Nil
    ELSE ReconfigureBoard(r.pre, r.deps, r.conf).board

\* SetPower evaluates wm.board as the argument of setPin.  The read is
\* unsynchronized: while a Reconfigure is in flight it races with the
\* stores to the two-word interface value and may also see it half-written.
SpRead(powerPct) ==
    /\ SpFree
    /\ \E b \in (IF RcFree THEN {board} ELSE {board, Torn}) :
          sp' = [pc |-> "called", powerPct |-> powerPct, b |-> b,
                 pin |-> (powerPct = One), racing |-> ~RcFree,
                 old |-> IF RcFree THEN Nil ELSE rc.pre, new |-> Pending(rc),
                 ops |-> <<>>, err |-> "nil", logged |-> <<>>,
                 bound |-> Nil, rcBusy |-> FALSE]
    /\ UNCHANGED <<board, pins, last, rc>>

\* setPin: b.GPIOPinByName(pv.name); on an error l.Error(err) with l = nil
SpLookup ==
    /\ sp.pc = "called"
    /\ LET lookup == PinOp("GPIOPinByName", sp.b, propellerPinName, FALSE)
       IN  IF sp.b \notin Boards
           THEN sp' = [sp EXCEPT !.pc = "returned", !.err = "panic"]
           ELSE IF propellerPinName \notin PinsOf(sp.b)
                THEN LET r == LogAndReturn(NilLogger, "errPinNotFound", <<lookup>>, pins)
                     IN  sp' = [sp EXCEPT !.pc = "returned", !.err = r.err,
                                          !.ops = r.ops, !.logged = r.logged]
                ELSE sp' = [sp EXCEPT !.pc = "found", !.ops = <<lookup>>]
    /\ UNCHANGED <<board, pins, last, rc>>

\* setPin: pinReturnValue.Set(ctx, pv.high, nil); return.  The context
\* notes what wm.board held, and whether a Reconfigure was in flight, when
\* the write was issued.
SpSet(writeFails) ==
    /\ sp.pc = "found"
    /\ LET set == PinOp("Set", sp.b, propellerPinName, sp.pin)
       IN  IF writeFails
           THEN LET r == LogAndReturn(NilLogger, "errPinSet", Append(sp.ops, set), pins)
                IN  /\ sp' = [sp EXCEPT !.pc = "returned", !.err = r.err,
                                        !.ops = r.ops, !.logged = r.logged,
                                        !.bound = board, !.rcBusy = ~RcFree]
                    /\ UNCHANGED pins
           ELSE /\ pins' = [pins EXCEPT ![sp.b][propellerPinName] = sp.pin]
                /\ sp' = [sp EXCEPT !.pc = "returned", !.ops = Append(sp.ops, set),
                                    !.bound = board, !.rcBusy = ~RcFree]
    /\ UNCHANGED <<board, last, rc>>

NextConc ==
    \/ \E d \in ConcDepSets, c \in ConcConfs : RcClear(d, c)
    \/ RcConvert
    \/ RcResolve
    \/ \E p \in ConcPowers : SpRead(p)
    \/ SpLookup
    \/ \E wf \in BOOLEAN : SpSet(wf)

SpecConc == Init /\ [][NextConc]_vars

\* ------------------------------------------------------------------ claims
StubOps == {"GoFor", "GoTo", "SetRPM", "ResetZeroPosition", "Position",
            "IsMoving", "IsPowered", "Properties", "Stop", "Close"}

\* the configuration converts and its board name is a board of deps
Resolvable(deps, conf) ==
    /\ conf.native
    /\ conf.Board \in DOMAIN deps
    /\ deps[conf.Board] \in Boards

HasPropeller(b) == b \in Boards /\ propellerPinName \in PinsOf(b)

\* the last call was SetPower on a bound board and met a pin failure
PinFailure ==
    /\ last.op = "SetPower"
    /\ last.pre \in Boards
    /\ (~HasPropeller(last.pre) \/ last.writeFails)

\* C1: SetPower on an unbound component returns an Unbound error value and
\* performs no pin operation (the call does not crash).
C1_UnboundSetPowerReturnsUnbound ==
    (last.op = "SetPower" /\ last.pre = Nil)
        => (last.result = "errUnbound" /\ last.ops = <<>>)

\* C2: on a bound board that exposes pin "29" and whose write succeeds,
\* SetPower(p) leaves pin "29" high iff p is exactly 1.
C2_HighIffPowerIsOne ==
    (last.op = "SetPower" /\ HasPropeller(last.pre) /\ ~last.writeFails)
        => /\ last.result = "nil"
           /\ pins[last.pre][propellerPinName] <=> (last.args[1] = 1000)

\* SetPower(0.999) took a high propeller pin low
C2_Witness ==
    /\ last.op = "SetPower"
    /\ HasPropeller(last.pre)
    /\ last.args = <<999>>
    /\ last.result = "nil"
    /\ last.prePins[last.pre][propellerPinName]
    /\ ~pins[last.pre][propellerPinName]

\* C3: whenever Reconfigure returns an error the component is unbound,
\* whatever it held before.
C3_FailedReconfigureUnbinds ==
    (last.op = "Reconfigure" /\ last.result # "nil") => board = Nil

\* a bound component was handed a board name that does not resolve
C3_Witness ==
    /\ last.op = "Reconfigure"
    /\ last.pre \in Boards
    /\ last.result = "errUnableToGetBoard"

\* C4: Reconfigure with a resolvable board name succeeds and binds exactly
\* the resolved handle; a SetPower right after it succeeds when that board
\* has pin "29" and the write does not fail.
C4_ResolvableReconfigureBinds ==
    /\ (last.op = "Reconfigure" /\ Resolvable(last.deps, last.conf))
          => /\ last.result = "nil"
             /\ board = last.deps[last.conf.Board]
    /\ (/\ last.op = "SetPower"
        /\ last.afterBind
        /\ HasPropeller(board)
        /\ ~last.writeFails)
          => last.result = "nil"

\* SetPower(1) succeeded right after a successful Reconfigure
C4_Witness ==
    /\ last.op = "SetPower"
    /\ last.afterBind
    /\ last.args = <<1000>>
    /\ last.result = "nil"
    /\ HasPropeller(board)
    /\ pins[board][propellerPinName]

\* C5: a SetPower that reads the handle while a Reconfigure of a bound
\* component to a resolvable board is in flight sees the old handle or the
\* new one, never the absent handle of the window in between.
C5_ReadsFullyFormedHandle ==
    (sp.pc = "called" /\ sp.racing /\ sp.old \in Boards /\ sp.new \in Boards)
        => sp.b \in {sp.old, sp.new}

C7_PinFailureLoggedAndReturned ==
    PinFailure
        => /\ last.result \in {"errPinNotFound", "errPinSet"}
           /\ last.logged = <<last.result>>

\* C8: after Close or Stop on a bound component whose propeller pin was
\* high the pin is low, and after Close the handle is released.
C8_CloseAndStopDeEnergize ==
    (/\ last.op \in {"Close", "Stop"}
     /\ HasPropeller(last.pre)
     /\ last.prePins[last.pre][propellerPinName])
        => /\ ~pins[last.pre][propellerPinName]
           /\ (last.op = "Close" => board = Nil)

\* C9: Reconfigure performs no pin lookup and no pin write; every pin of
\* every board is as it was.
C9_ReconfigureTouchesNoPin ==
    last.op = "Reconfigure" => (last.ops = <<>> /\ pins = last.prePins)

\* a rebinding to another board left the old board's propeller pin high
C9_Witness ==
    /\ last.op = "Reconfigure"
    /\ HasPropeller(last.pre)
    /\ board \in Boards
    /\ board # last.pre
    /\ pins[last.pre][propellerPinName]

\* C10: for a resolvable configuration the handle and the result after
\* Reconfigure are the same from every starting handle, and a second
\* Reconfigure with the same inputs changes nothing.
C10_ReconfigureIndependentIdempotent ==
    (last.op = "Reconfigure" /\ Resolvable(last.deps, last.conf))
        => LET got == [board |-> board, err |-> last.result]
           IN  /\ \A from \in Boards \cup {Nil} :
                      ReconfigureBoard(from, last.deps, last.conf) = got
               /\ ReconfigureBoard(got.board, last.deps, last.conf) = got

\* the second of two Reconfigure calls in a row, from a bound handle
C10_Witness ==
    /\ last.op = "Reconfigure"
    /\ last.afterBind
    /\ Resolvable(last.deps, last.conf)
    /\ last.pre \in Boards
    /\ last.result = "nil"

\* C11: Validate returns the board name Reconfigure will look up as the
\* one dependency, and rejects a Configuration whose board name is empty.
C11_ValidateNamesTheBoard ==
    last.op = "Validate"
        => IF last.conf.Board = ""
           THEN last.result # "nil"
           ELSE last.result = "nil" /\ last.ret = <<last.conf.Board>>

\* the pin operations of kind op among the operations of the last call
OpsOf(op) == {i \in DOMAIN last.ops : last.ops[i].op = op}

\* C12: a SetPower on a bound component performs at most one pin lookup and
\* at most one pin write, the lookup first; a failed lookup is followed by
\* no write and a failed write is not repeated.
C12_OneLookupThenOneWrite ==
    (last.op = "SetPower" /\ last.pre \in Boards)
        => /\ Cardinality(OpsOf("GPIOPinByName")) <= 1
           /\ Cardinality(OpsOf("Set")) <= 1
           /\ Len(last.ops) = Cardinality(OpsOf("GPIOPinByName")) + Cardinality(OpsOf("Set"))
           /\ OpsOf("Set") # {} => (OpsOf("GPIOPinByName") = {1} /\ OpsOf("Set") = {2})
           /\ ~HasPropeller(last.pre) => OpsOf("Set") = {}

\* a write failed on a bound board: one lookup, then the one write
C12_Witness ==
    /\ last.op = "SetPower"
    /\ HasPropeller(last.pre)
    /\ last.writeFails
    /\ Len(last.ops) = 2
    /\ last.ops[2].op = "Set"

\* C13: SetPower never changes the bound-handle field, whether the pin
\* lookup and write succeed or fail.
C13_SetPowerKeepsHandle ==
    last.op = "SetPower" => board = last.pre

\* a SetPower met a pin failure on a bound component, which stays bound
C13_Witness ==
    /\ PinFailure
    /\ last.result # "nil"
    /\ board \in Boards

\* C14: the only pin ever looked up or written is the propeller pin "29":
\* no call names a turning or winch pin, and their levels never change.
C14_OnlyPropellerPin ==
    /\ \A i \in DOMAIN last.ops : last.ops[i].pin = "29"
    /\ \A b \in Boards : \A p \in PinsOf(b) \ {"29"} : pins[b][p] = FALSE

\* SetPower(-1) looked up and wrote a pin of a bound board
C14_Witness ==
    /\ last.op = "SetPower"
    /\ last.args = <<-1000>>
    /\ HasPropeller(last.pre)
    /\ Len(last.ops) = 2
    /\ last.result = "nil"

\* C15: every pin write of SetPower goes to the board bound by the most
\* recent successful Reconfigure; a board that was replaced by a rebind or
\* cleared by a failed Reconfigure is never written again.
C15_WritesGoToBoundBoard ==
    (sp.pc = "returned" /\ Len(sp.ops) = 2 /\ ~sp.rcBusy)
        => sp.b = sp.bound

====
